---- MODULE Spec2Model ----
(***************************************************************************)
(* Model of helper_functions.py: getMST (correlation graph, minimum        *)
(* spanning tree, sorted edge list) and getBettiCurve (threshold sweep).   *)
(*                                                                         *)
(* Floating-point values in [0,1] are fixed-point integers in 0..Scale     *)
(* (x stands for x/Scale); NAN and INF are tags outside that range.        *)
(* Arrays are indexed from 0 as in the source.                             *)
(***************************************************************************)
EXTENDS Integers, Sequences, FiniteSets, TLC

\* ---------------------------------------------------------------- bounds
\* Largest number of regions (columns) of an input matrix.
MaxR == 3
\* Number of grid points (the source uses 10000 at line 134).
GridSize == 3
\* Fixed-point units between two neighbouring grid points.
Res == 4

Scale == GridSize * Res

\* ------------------------------------------------------------ float tags
NAN == -1
INF == -2

IsFinite(x) == x # NAN /\ x # INF

\* 1.0 - x on floats: NaN propagates.
OneMinus(x) == IF x = NAN THEN NAN ELSE Scale - x

\* floor(sqrt(x)) for 0 <= x < (Scale+1)^2
ISqrt(x) == CHOOSE r \in 0..Scale : r * r <= x /\ (r + 1) * (r + 1) > x

\* ---------------------------------------------------------------- inputs
\* Per-region density profiles over three subjects: a ramp, a step and a
\* constant region.  A matrix with S subjects takes the first S values of
\* each chosen profile.
Profiles == { <<0, 1, 2>>, <<0, 0, 1>>, <<1, 1, 1>> }

MaxSubjects == Len(CHOOSE p \in Profiles : TRUE)

\* Both cohorts have the same number of subjects (lines 73-78): all of
\* them, or a single one.
SubjectCounts == {1, MaxSubjects}

\* icn[s][r]: subject s (row), region r (column), both from 0.
Matrices(S, R) ==
    { [s \in 0..(S - 1) |-> [r \in 0..(R - 1) |-> cols[r][s + 1]]] :
        cols \in [0..(R - 1) -> Profiles] }

DensityMatrices(S) == UNION { Matrices(S, R) : R \in 1..MaxR }

Subjects(icn) == Cardinality(DOMAIN icn)
Regions(icn) == Cardinality(DOMAIN icn[0])

\* ----------------------------------------------------------- np.corrcoef
RECURSIVE SumUpTo(_, _)
\* f[0] + ... + f[n]
SumUpTo(f, n) == IF n < 0 THEN 0 ELSE f[n] + SumUpTo(f, n - 1)

\* S * sum(x_i * x_j) - sum(x_i) * sum(x_j): S*(S-1) times the covariance.
CovN(icn, i, j) ==
    LET S == Subjects(icn)
        xi == [s \in 0..(S - 1) |-> icn[s][i]]
        xj == [s \in 0..(S - 1) |-> icn[s][j]]
        xx == [s \in 0..(S - 1) |-> icn[s][i] * icn[s][j]]
    IN  S * SumUpTo(xx, S - 1) - SumUpTo(xi, S - 1) * SumUpTo(xj, S - 1)

\* The mean and the standard deviation of column i are computed without
\* rounding: the sum is a multiple of S and the variance is the square of
\* an integer.
ExactStd(icn, i) ==
    LET S == Subjects(icn)
        x == [s \in 0..(S - 1) |-> icn[s][i]]
        v == CovN(icn, i, i)
        q == S * (S - 1)
    IN  /\ SumUpTo(x, S - 1) % S = 0
        /\ v % q = 0
        /\ \E r \in 1..(v \div q) : r * r = v \div q

\* |Pearson r| of columns i and j in fixed point, rounded down; NaN when a
\* variance is zero or there is a single observation (0/0).  For perfectly
\* correlated columns c / stddev_i / stddev_j is exactly 1.0 when both
\* standard deviations are exact, and falls short of 1.0 by the rounding
\* of the square roots otherwise.
AbsPearson(icn, i, j) ==
    LET vi == CovN(icn, i, i)
        vj == CovN(icn, j, j)
        c  == CovN(icn, i, j)
    IN  IF Subjects(icn) < 2 \/ vi * vj = 0
        THEN NAN
        ELSE IF c * c = vi * vj
        THEN (IF ExactStd(icn, i) /\ ExactStd(icn, j) THEN Scale ELSE Scale - 1)
        ELSE ISqrt((Scale * Scale * c * c) \div (vi * vj))

\* Variance numerator of the single row of a 1 x R matrix read as one
\* variable with R observations.
RowVarN(icn) ==
    LET R == Regions(icn)
        x  == [r \in 0..(R - 1) |-> icn[0][r]]
        xx == [r \in 0..(R - 1) |-> icn[0][r] * icn[0][r]]
    IN  R * SumUpTo(xx, R - 1) - SumUpTo(x, R - 1) * SumUpTo(x, R - 1)

Scalar(v) == [shape |-> <<>>, a |-> v]
Matrix(R, m) == [shape |-> <<R, R>>, a |-> m]

\* abs(np.corrcoef(icn, rowvar=False)).  A single variable gives a 0-d
\* result c / c (1.0, or NaN for zero or undefined variance).  np.cov
\* before NumPy 2.0 does not transpose a one-row matrix under
\* rowvar=False and reads it as one variable; singleRowVar selects that.
AbsCorrcoef(icn, singleRowVar) ==
    LET S == Subjects(icn)
        R == Regions(icn)
    IN  IF S = 1 /\ singleRowVar
        THEN Scalar(IF R >= 2 /\ RowVarN(icn) # 0 THEN Scale ELSE NAN)
        ELSE IF R = 1
        THEN Scalar(IF S >= 2 /\ CovN(icn, 0, 0) # 0 THEN Scale ELSE NAN)
        ELSE Matrix(R, [i \in 0..(R - 1) |->
                          [j \in 0..(R - 1) |-> AbsPearson(icn, i, j)]])

\* ------------------------------------------------- dissimilarity matrix
\* mat = 1.0 - cor (elementwise), shape kept.
Dissimilarity(cor) ==
    IF cor.shape = <<>>
    THEN Scalar(OneMinus(cor.a))
    ELSE Matrix(cor.shape[1],
                [i \in DOMAIN cor.a |->
                   [j \in DOMAIN cor.a[i] |-> OneMinus(cor.a[i][j])]])

\* np.fill_diagonal(mat, np.inf) on an array of at least two dimensions.
FillDiagonal(mat) ==
    Matrix(mat.shape[1],
           [i \in DOMAIN mat.a |->
              [j \in DOMAIN mat.a[i] |-> IF i = j THEN INF ELSE mat.a[i][j]]])

\* ------------------------------------------------- scipy.sparse.csgraph
RECURSIVE DenseScan(_, _, _)
\* Entries <<row, col, data>> of positions p.. in row-major order, the
\* null entries (inf, and NaN) left out; explicit zeros are kept.
DenseScan(m, R, p) ==
    IF p >= R * R
    THEN <<>>
    ELSE LET i == p \div R
             j == p % R
         IN  (IF IsFinite(m[i][j]) THEN << <<i, j, m[i][j]>> >> ELSE <<>>)
             \o DenseScan(m, R, p + 1)

\* csg.csgraph_from_dense(mat, null_value=np.inf): the CSR entries.
CsgraphFromDense(mat) == DenseScan(mat.a, mat.shape[1], 0)

Front(s) == SubSeq(s, 1, Len(s) - 1)

RECURSIVE InsertByItem2(_, _)
\* e placed after every element whose third item is <= e's (stable).
InsertByItem2(s, e) ==
    IF s = <<>>
    THEN <<e>>
    ELSE IF s[Len(s)][3] <= e[3]
         THEN Append(s, e)
         ELSE Append(InsertByItem2(Front(s), e), s[Len(s)])

RECURSIVE StableSortPlain(_)
StableSortPlain(s) ==
    IF s = <<>> THEN <<>> ELSE InsertByItem2(StableSortPlain(Front(s)), s[Len(s)])

\* np.argsort(data, kind='stable') applied to the entries.
ArgsortStable(s) == StableSortPlain(s)

RECURSIVE Kruskal(_, _)
\* The positions <<row, col>> kept by the union-find sweep over the
\* entries in sorted order: an entry is kept when its ends lie in
\* different subtrees (comp maps a node to its subtree's head).
Kruskal(es, comp) ==
    IF es = <<>>
    THEN {}
    ELSE LET e  == Head(es)
             r1 == comp[e[1]]
             r2 == comp[e[2]]
         IN  IF r1 # r2
             THEN { <<e[1], e[2]>> } \cup
                  Kruskal(Tail(es), [v \in DOMAIN comp |->
                                       IF comp[v] = r2 THEN r1 ELSE comp[v]])
             ELSE Kruskal(Tail(es), comp)

\* sp_tree.eliminate_zeros(): stored entries whose data is 0 are removed.
EliminateZeros(es) ==
    LET NonZero(e) == e[3] # 0 IN SelectSeq(es, NonZero)

\* csg.minimum_spanning_tree(G) over R nodes: the data of every entry not
\* kept by the sweep is set to 0, then the zeros are eliminated.
MinimumSpanningTree(G, R) ==
    LET kept == Kruskal(ArgsortStable(G), [v \in 0..(R - 1) |-> v])
        data == [p \in DOMAIN G |->
                   IF <<G[p][1], G[p][2]>> \in kept
                   THEN G[p] ELSE <<G[p][1], G[p][2], 0>>]
    IN  EliminateZeros(data)

\* zip(T.nonzero()[0], T.nonzero()[1], 1.0 - T.data)
ZipSimilarity(T) == [p \in DOMAIN T |-> <<T[p][1], T[p][2], Scale - T[p][3]>>]

\* Variant: the triples left in the order of their positions (no sort).
UnsortedTriples(s) == s

\* sorted(..., key=itemgetter(2))
SortedByItem2(s) == StableSortPlain(s)

\* Lines 95-100 for one cohort whose correlation array is a matrix.
MatOf(cor) == FillDiagonal(Dissimilarity(cor))
MSTOf(mat) ==
    SortedByItem2(ZipSimilarity(
        MinimumSpanningTree(CsgraphFromDense(mat), mat.shape[1])))

\* ------------------------------------------------------- getBettiCurve
RECURSIVE SumOnes(_, _)
\* sum([1 for w in ws if w <= t])
SumOnes(ws, t) ==
    IF ws = <<>>
    THEN 0
    ELSE (IF Head(ws) <= t THEN 1 ELSE 0) + SumOnes(Tail(ws), t)

\* Variant: the comparison turned round (w > t).
BettiAtAbove(ws, t) == 1 + (Len(ws) - SumOnes(ws, t))

\* Variant: a strict comparison (w < t).
BettiAtStrict(ws, t) == 1 + SumOnes(ws, t - 1)

\* Variant: the leading 1 left out.
BettiAtNoOffset(ws, t) == SumOnes(ws, t)

\* One value of the curve: 1 + sum([1 for w in ws if w <= t])
BettiAt(ws, t) == 1 + SumOnes(ws, t)

\* np.linspace(1.0/10000, 1.0, 10000) with GridSize points: k/GridSize.
Linspace == [k \in 1..GridSize |-> k * Res]

\* [e[2] for e in mst]
Weights(mst) == [p \in DOMAIN mst |-> mst[p][3]]

\* ------------------------------------------------------------- the state
VARIABLES
    entry,          \* the function the caller invoked
    pc,             \* position in getMST / getBettiCurve
    singleRowVar,   \* np.cov reads a one-row matrix as one variable
    icn_asd, icn_tdc,
    cor_asd, cor_tdc,
    mat_asd, mat_tdc,
    mst_asd, mst_tdc,
    w_asd, w_tdc,
    thresholds,
    beta_asd, beta_tdc,
    raised,         \* the exception that left the function, or "none"
    stdout          \* lines printed

vars == <<entry, pc, singleRowVar, icn_asd, icn_tdc, cor_asd, cor_tdc,
          mat_asd, mat_tdc, mst_asd, mst_tdc, w_asd, w_tdc, thresholds,
          beta_asd, beta_tdc, raised, stdout>>

\* A local not assigned yet.
Unbound == [shape |-> <<0>>, a |-> NAN]

\* Weights a caller of getBettiCurve may pass: 0, every grid point and
\* the value just below each grid point.
ListWeights == {0} \cup { k * Res : k \in 1..GridSize }
                   \cup { k * Res - 1 : k \in 1..GridSize }

\* Sorted edge lists of n edges over n + 1 nodes (a path 0 - 1 - ... - n).
EdgeLists(n) ==
    { [p \in 1..n |-> <<p - 1, p, ws[p]>>] :
        ws \in { f \in [1..n -> ListWeights] :
                   \A p \in 1..n, q \in 1..n : p < q => f[p] <= f[q] } }

SortedEdgeLists == UNION { EdgeLists(n) : n \in 0..(MaxR - 1) }

\* The caller invokes getMST(icn_asd, icn_tdc).
InitGetMST ==
    /\ entry = "getMST"
    /\ pc = "corrcoef"
    /\ \E S \in SubjectCounts :
          /\ icn_asd \in DensityMatrices(S)
          /\ icn_tdc \in DensityMatrices(S)
          /\ singleRowVar \in (IF S = 1 THEN BOOLEAN ELSE {FALSE})
    /\ mst_asd = <<>> /\ mst_tdc = <<>>

\* The caller invokes getBettiCurve(mst_asd, mst_tdc) on lists of its own.
InitGetBettiCurve ==
    /\ entry = "getBettiCurve"
    /\ pc = "weights"
    /\ icn_asd = <<>> /\ icn_tdc = <<>>
    /\ singleRowVar = FALSE
    /\ mst_asd \in SortedEdgeLists
    /\ mst_tdc \in SortedEdgeLists

Init ==
    /\ InitGetMST \/ InitGetBettiCurve
    /\ cor_asd = Unbound /\ cor_tdc = Unbound
    /\ mat_asd = Unbound /\ mat_tdc = Unbound
    /\ w_asd = <<>> /\ w_tdc = <<>>
    /\ thresholds = <<>>
    /\ beta_asd = <<>> /\ beta_tdc = <<>>
    /\ raised = "none"
    /\ stdout = <<>>

\* ---------------------------------------------------------------- getMST
\* Lines 89-90.
Corrcoef ==
    /\ pc = "corrcoef"
    /\ cor_asd' = AbsCorrcoef(icn_asd, singleRowVar)
    /\ cor_tdc' = AbsCorrcoef(icn_tdc, singleRowVar)
    /\ pc' = "shape"
    /\ UNCHANGED <<entry, singleRowVar, icn_asd, icn_tdc, mat_asd, mat_tdc,
                   mst_asd, mst_tdc, w_asd, w_tdc, thresholds, beta_asd,
                   beta_tdc, raised, stdout>>

\* Lines 91-93: the shapes differ; print and exit(1).
ShapeMismatch ==
    /\ pc = "shape"
    /\ cor_tdc.shape # cor_asd.shape
    /\ stdout' = Append(stdout, "Error : correlation matrices have different shape")
    /\ raised' = "SystemExit"
    /\ pc' = "exited"
    /\ UNCHANGED <<entry, singleRowVar, icn_asd, icn_tdc, cor_asd, cor_tdc,
                   mat_asd, mat_tdc, mst_asd, mst_tdc, w_asd, w_tdc,
                   thresholds, beta_asd, beta_tdc>>

\* Line 91: the shapes agree.
ShapeOk ==
    /\ pc = "shape"
    /\ cor_tdc.shape = cor_asd.shape
    /\ pc' = "asd"
    /\ UNCHANGED <<entry, singleRowVar, icn_asd, icn_tdc, cor_asd, cor_tdc,
                   mat_asd, mat_tdc, mst_asd, mst_tdc, w_asd, w_tdc,
                   thresholds, beta_asd, beta_tdc, raised, stdout>>

\* Lines 95-96 on a 0-d array: np.fill_diagonal raises ValueError.
FillDiagonalRaises ==
    /\ pc = "asd"
    /\ cor_asd.shape = <<>>
    /\ mat_asd' = Dissimilarity(cor_asd)
    /\ raised' = "ValueError"
    /\ pc' = "raised"
    /\ UNCHANGED <<entry, singleRowVar, icn_asd, icn_tdc, cor_asd, cor_tdc,
                   mat_tdc, mst_asd, mst_tdc, w_asd, w_tdc, thresholds,
                   beta_asd, beta_tdc, stdout>>

\* Lines 95-100.
BuildAsd ==
    /\ pc = "asd"
    /\ cor_asd.shape # <<>>
    /\ mat_asd' = MatOf(cor_asd)
    /\ mst_asd' = MSTOf(mat_asd')
    /\ pc' = "tdc"
    /\ UNCHANGED <<entry, singleRowVar, icn_asd, icn_tdc, cor_asd, cor_tdc,
                   mat_tdc, mst_tdc, w_asd, w_tdc, thresholds, beta_asd,
                   beta_tdc, raised, stdout>>

\* Variant: line 102 reads cor_asd in place of cor_tdc.
BuildTdcFromAsd ==
    /\ pc = "tdc"
    /\ mat_tdc' = MatOf(cor_asd)
    /\ mst_tdc' = MSTOf(mat_tdc')
    /\ pc' = "return"
    /\ UNCHANGED <<entry, singleRowVar, icn_asd, icn_tdc, cor_asd, cor_tdc,
                   mat_asd, mst_asd, w_asd, w_tdc, thresholds, beta_asd,
                   beta_tdc, raised, stdout>>

\* Lines 102-107.
BuildTdc ==
    /\ pc = "tdc"
    /\ mat_tdc' = MatOf(cor_tdc)
    /\ mst_tdc' = MSTOf(mat_tdc')
    /\ pc' = "return"
    /\ UNCHANGED <<entry, singleRowVar, icn_asd, icn_tdc, cor_asd, cor_tdc,
                   mat_asd, mst_asd, w_asd, w_tdc, thresholds, beta_asd,
                   beta_tdc, raised, stdout>>

\* Line 110.
ReturnMST ==
    /\ pc = "return"
    /\ pc' = "returned"
    /\ UNCHANGED <<entry, singleRowVar, icn_asd, icn_tdc, cor_asd, cor_tdc,
                   mat_asd, mat_tdc, mst_asd, mst_tdc, w_asd, w_tdc,
                   thresholds, beta_asd, beta_tdc, raised, stdout>>

\* --------------------------------------------------------- getBettiCurve
\* The caller hands getMST's two lists to getBettiCurve (line 113).
CallGetBettiCurve ==
    /\ pc = "returned"
    /\ pc' = "weights"
    /\ UNCHANGED <<entry, singleRowVar, icn_asd, icn_tdc, cor_asd, cor_tdc,
                   mat_asd, mat_tdc, mst_asd, mst_tdc, w_asd, w_tdc,
                   thresholds, beta_asd, beta_tdc, raised, stdout>>

\* Lines 131-136.
BettiSetup ==
    /\ pc = "weights"
    /\ w_asd' = Weights(mst_asd)
    /\ w_tdc' = Weights(mst_tdc)
    /\ thresholds' = Linspace
    /\ beta_asd' = <<>>
    /\ beta_tdc' = <<>>
    /\ pc' = "loop"
    /\ UNCHANGED <<entry, singleRowVar, icn_asd, icn_tdc, cor_asd, cor_tdc,
                   mat_asd, mat_tdc, mst_asd, mst_tdc, raised, stdout>>

\* Lines 137-139: one iteration of the loop over the thresholds.
BettiLoop ==
    /\ pc = "loop"
    /\ Len(beta_asd) < Len(thresholds)
    /\ LET t == thresholds[Len(beta_asd) + 1]
       IN  /\ beta_asd' = Append(beta_asd, BettiAt(w_asd, t))
           /\ beta_tdc' = Append(beta_tdc, BettiAt(w_tdc, t))
    /\ UNCHANGED <<entry, pc, singleRowVar, icn_asd, icn_tdc, cor_asd,
                   cor_tdc, mat_asd, mat_tdc, mst_asd, mst_tdc, w_asd, w_tdc,
                   thresholds, raised, stdout>>

\* Line 141.
BettiReturn ==
    /\ pc = "loop"
    /\ Len(beta_asd) = Len(thresholds)
    /\ pc' = "done"
    /\ UNCHANGED <<entry, singleRowVar, icn_asd, icn_tdc, cor_asd, cor_tdc,
                   mat_asd, mat_tdc, mst_asd, mst_tdc, w_asd, w_tdc,
                   thresholds, beta_asd, beta_tdc, raised, stdout>>

Next ==
    \/ Corrcoef
    \/ ShapeMismatch
    \/ ShapeOk
    \/ FillDiagonalRaises
    \/ BuildAsd
    \/ BuildTdc
    \/ ReturnMST
    \/ CallGetBettiCurve
    \/ BettiSetup
    \/ BettiLoop
    \/ BettiReturn

Spec == Init /\ [][Next]_vars

\* ------------------------------------------------------------ vocabulary
\* getMST has built the list of a cohort (lines 100 and 107).
AsdBuilt ==
    entry = "getMST" /\ pc \in {"tdc", "return", "returned", "weights", "loop", "done"}
TdcBuilt ==
    entry = "getMST" /\ pc \in {"return", "returned", "weights", "loop", "done"}

\* The cohorts whose edge list getMST has built, each with its arrays.
Built ==
    (IF AsdBuilt
     THEN {[icn |-> icn_asd, cor |-> cor_asd, mat |-> mat_asd, mst |-> mst_asd]}
     ELSE {})
    \cup
    (IF TdcBuilt
     THEN {[icn |-> icn_tdc, cor |-> cor_tdc, mat |-> mat_tdc, mst |-> mst_tdc]}
     ELSE {})

\* Number of nodes of a cohort's tree: the regions of its matrix, or, for
\* a list handed to getBettiCurve directly, one more than its edges.
NodesAsd == IF entry = "getMST" THEN Regions(icn_asd) ELSE Len(mst_asd) + 1
NodesTdc == IF entry = "getMST" THEN Regions(icn_tdc) ELSE Len(mst_tdc) + 1

\* The two curves with the list and node count each is computed from.
Curves ==
    { [mst |-> mst_asd, beta |-> beta_asd, R |-> NodesAsd],
      [mst |-> mst_tdc, beta |-> beta_tdc, R |-> NodesTdc] }

TooSmall(icn) == Subjects(icn) < 2 \/ Regions(icn) < 2

\* An R x R dissimilarity matrix: symmetric, off-diagonal entries finite
\* and in [0,1], the no-edge sentinel on the diagonal.
ValidDissimilarity(mat) ==
    /\ Len(mat.shape) = 2
    /\ \A i \in DOMAIN mat.a, j \in DOMAIN mat.a :
          /\ i = j => mat.a[i][j] = INF
          /\ i # j => mat.a[i][j] \in 0..Scale /\ mat.a[i][j] = mat.a[j][i]

\* Node pairs joined by a usable (finite) entry of the matrix.
UsableEdges(mat) ==
    { pr \in (DOMAIN mat.a) \X (DOMAIN mat.a) :
        pr[1] < pr[2] /\ IsFinite(mat.a[pr[1]][pr[2]]) }

RECURSIVE Joins(_, _)
\* Union-find reconstruction: how many edges of the list join two
\* components that were separate before them.
Joins(es, comp) ==
    IF es = <<>>
    THEN 0
    ELSE LET a == comp[Head(es)[1]]
             b == comp[Head(es)[2]]
         IN  IF a # b
             THEN 1 + Joins(Tail(es), [v \in DOMAIN comp |->
                                         IF comp[v] = b THEN a ELSE comp[v]])
             ELSE Joins(Tail(es), comp)

Acyclic(es, R) == Joins(es, [v \in 0..(R - 1) |-> v]) = Len(es)
Connected(es, R) == R - Joins(es, [v \in 0..(R - 1) |-> v]) = 1

\* Edges of the list whose weight is <= t.
AtOrBelow(mst, t) == { p \in DOMAIN mst : mst[p][3] <= t }

\* An R-node tree's list with every weight in [0,1] and above the
\* smallest grid point.
AboveFirstGridPoint(c) ==
    /\ Len(c.mst) = c.R - 1
    /\ \A p \in DOMAIN c.mst : c.mst[p][3] \in 0..Scale /\ c.mst[p][3] > Linspace[1]

\* ------------------------------------------------------------------ C1
\* C1 (as claimed): for every valid R x R dissimilarity matrix, zeros
\* included, the list getMST builds has exactly R-1 edges, each with a
\* weight in [0,1], and is a spanning tree (acyclic, connecting all nodes).
C1_SpanningTree ==
    \A c \in Built :
        ValidDissimilarity(c.mat) =>
            /\ Len(c.mst) = Regions(c.icn) - 1
            /\ \A p \in DOMAIN c.mst : c.mst[p][3] \in 0..Scale
            /\ Acyclic(c.mst, Regions(c.icn))
            /\ Connected(c.mst, Regions(c.icn))

RegionMismatch == entry = "getMST" /\ Regions(icn_asd) # Regions(icn_tdc)

\* C6 (as claimed): when the cohorts' region counts differ, the process is
\* never terminated from inside, no list is built for either cohort, and
\* the failure reaches the caller as ShapeMismatchError.
C6_ShapeMismatchReported ==
    RegionMismatch =>
        /\ pc # "exited" /\ raised # "SystemExit"
        /\ ~AsdBuilt /\ ~TdcBuilt
        /\ pc = "raised" => raised = "ShapeMismatchError"

\* ------------------------------------------------------------------ C7
\* C7 (as claimed): a graph (of an input of valid size) with fewer than
\* R-1 usable finite edges makes extraction fail with
\* DisconnectedGraphError; no list with fewer than R-1 edges is built.
C7_DisconnectedReported ==
    \A c \in Built :
        (~TooSmall(c.icn) /\ Cardinality(UsableEdges(c.mat)) < Regions(c.icn) - 1) =>
            /\ raised = "DisconnectedGraphError"
            /\ Len(c.mst) >= Regions(c.icn) - 1

\* ------------------------------------------------------------------ C8
\* C8 (as claimed): with fewer than 2 subjects or fewer than 2 regions (the
\* cohorts agreeing on the region count) no dissimilarity matrix and no
\* edge list is produced, and getMST ends with InvalidInputError.
C8_TooSmallRejected ==
    (/\ entry = "getMST"
     /\ Regions(icn_asd) = Regions(icn_tdc)
     /\ TooSmall(icn_asd) \/ TooSmall(icn_tdc)) =>
        /\ mat_asd.shape = <<0>> /\ mat_tdc.shape = <<0>>
        /\ ~AsdBuilt /\ ~TdcBuilt
        /\ pc \in {"exited", "raised"} => raised = "InvalidInputError"

\* ------------------------------------------------------------------ C9
\* Regions i and j have the same measurements for every subject, their
\* correlation is 1 and their dissimilarity 0, and no other pair of
\* regions has dissimilarity 0.
IdenticalUniqueMinimum(c, i, j) ==
    /\ i < j
    /\ \A s \in DOMAIN c.icn : c.icn[s][i] = c.icn[s][j]
    /\ c.cor.a[i][j] = Scale
    /\ c.mat.a[i][j] = 0
    /\ \A k \in DOMAIN c.mat.a, l \in DOMAIN c.mat.a :
          (k < l /\ <<k, l>> # <<i, j>>) => c.mat.a[k][l] # 0

\* C9 (as claimed): for such a pair the list getMST builds contains an
\* edge between the two regions with similarity weight 1.
C9_IdenticalRegionsEdge ==
    \A c \in Built :
        \A i \in DOMAIN c.mat.a, j \in DOMAIN c.mat.a :
            IdenticalUniqueMinimum(c, i, j) =>
                \E p \in DOMAIN c.mst :
                    c.mst[p] = <<i, j, Scale>> \/ c.mst[p] = <<j, i, Scale>>

\* ----------------------------------------------------------------- C10
\* C10: a cohort's outputs are determined by that cohort's input alone:
\* the list getMST returns for it is the tree of its own matrix, its curve
\* is the sweep of its own list over the fixed grid, whatever the other
\* cohort's input is.
C10_CohortsIndependent ==
    /\ (entry = "getMST" /\ pc = "returned") =>
          /\ mst_asd = MSTOf(MatOf(AbsCorrcoef(icn_asd, singleRowVar)))
          /\ mst_tdc = MSTOf(MatOf(AbsCorrcoef(icn_tdc, singleRowVar)))
    /\ \A k \in DOMAIN beta_asd :
          beta_asd[k] = BettiAt(Weights(mst_asd), Linspace[k])
    /\ \A k \in DOMAIN beta_tdc :
          beta_tdc[k] = BettiAt(Weights(mst_tdc), Linspace[k])
    /\ pc = "done" => Len(beta_asd) = GridSize /\ Len(beta_tdc) = GridSize

\* A completed run of the pipeline whose cohorts differ in input, tree and
\* curve.
C10_Witness ==
    /\ entry = "getMST"
    /\ pc = "done"
    /\ icn_asd # icn_tdc
    /\ mst_asd # mst_tdc
    /\ beta_asd # beta_tdc

====
